---- MODULE Spec2Model ----
(***************************************************************************)
(* Model of quexxon/parameter-js: makeParameter, isParameter, the          *)
(* parameter closure (get/set through a guard) and the async parameterize  *)
(* combinator, on a JavaScript run-to-completion event loop.               *)
(*                                                                         *)
(* A parameterize call is split where the JavaScript engine splits it:     *)
(*   Start     validation, snapshot loop, apply loop, entry into thunk()   *)
(*             (and the finally block when the apply loop throws);         *)
(*   Body*     the thunk, which is caller code: it returns (a plain value  *)
(*             or a promise) or throws;                                    *)
(*   Continue  the continuation after `await`: the finally block and the   *)
(*             settling of the promise parameterize returned.              *)
(* `stack` is the JavaScript call stack restricted to thunk frames: while  *)
(* it is non-empty only the flow on top of it runs; everything that runs   *)
(* outside the synchronous part of a thunk (top-level code, event          *)
(* handlers, the later parts of an asynchronous thunk) is the flow Main.   *)
(***************************************************************************)
EXTENDS Integers, Sequences, FiniteSets, TLC

\* ---- bounds -------------------------------------------------------------
NumParams == 2      \* parameters that makeParameter may create
MaxVal == 1         \* candidate values are 0..MaxVal (and undefined)
MaxCalls == 2       \* parameterize calls that pass validation in one run
MaxBindings == 2    \* pairs in one bindings array
MaxPairs == 2       \* pairs bound by the running calls altogether

\* ---- values -------------------------------------------------------------
Undef == -1                      \* JavaScript undefined
Vals == 0..MaxVal
AllVals == Vals \cup {Undef}
Params == 1..NumParams           \* identities of created parameter closures
CallIds == 1..MaxCalls
Fake == 0                        \* a function () => {} not made by makeParameter
NullObj == -1                    \* null, standing for every non-function value
Targets == Params \cup {Fake, NullObj}
Functions == Params \cup {Fake}   \* the values whose typeof is 'function'
Main == 0                        \* the flow that is not inside any thunk

\* ---- guards -------------------------------------------------------------
\* A guard is any caller-supplied function of one argument.  Representatives:
\*  "id"        (x) => x, the default
\*  "isLetter"  validates and normalises (idempotent): rejects undefined and
\*              n <= 0, returns the odd number n or n - 1
\*  "dec"       validates and transforms, not idempotent: rejects undefined,
\*              maps n to n - 1 and 0 to undefined (so it rejects the image of 0)
GuardKinds == {"id", "isLetter", "dec"}

\* what may be passed as the guard argument of makeParameter:
\* isFn/arity decide isGuard; kind is the behaviour of a valid guard
GuardArgs ==
    {[given |-> TRUE, isFn |-> TRUE, arity |-> 1, kind |-> k] : k \in GuardKinds}
    \cup {[given |-> FALSE, isFn |-> FALSE, arity |-> 0, kind |-> "id"],
          [given |-> TRUE, isFn |-> FALSE, arity |-> 0, kind |-> "id"],
          [given |-> TRUE, isFn |-> TRUE, arity |-> 0, kind |-> "id"],
          [given |-> TRUE, isFn |-> TRUE, arity |-> 2, kind |-> "id"]}

GuardThrows(g, v) ==
    CASE g = "id" -> FALSE
      [] g = "isLetter" -> v <= 0
      [] g = "dec" -> v = Undef

GuardValue(g, v) ==
    CASE g = "id" -> v
      [] g = "isLetter" -> IF v % 2 = 1 THEN v ELSE v - 1
      [] g = "dec" -> IF v = 0 THEN Undef ELSE v - 1

\* ---- predicates of the source -------------------------------------------
isPair(item) == Len(item) = 2

isThunk(t) == t.isFn /\ t.arity = 0

isGuardAnyArity(g) == g.isFn

isGuard(g) == g.isFn /\ g.arity = 1

\* guard = (x) => x when the argument is undefined (omitted or explicit)
DefaultGuard(g) ==
    IF g.given THEN g ELSE [given |-> FALSE, isFn |-> TRUE, arity |-> 1, kind |-> "id"]

VARIABLES
    value,         \* value[p]: the closure variable `value` of parameter p
    tag,           \* history: who wrote value[p]: Main or the call that bound it
    guardOf,       \* guardOf[p]: the guard closed over by p ("none": not created)
    parameterSet,  \* the module's WeakSet
    made,          \* history: closures that makeParameter has returned
    calls,         \* the parameterize invocations
    stack,         \* thunk frames being executed, innermost first
    out,           \* what the last operation returned or threw
    isParameterMethod  \* src/index.js only: the own property of each function
                       \* under the key IS_PARAMETER_METHOD

vars == <<value, tag, guardOf, parameterSet, made, calls, stack, out, isParameterMethod>>

isParameterDuck(v) == v \in Params \cup {Fake}

isParameter(v) == v \in parameterSet

\* ---- the parameter closure ----------------------------------------------
\* parameter(...args): [value: the closure variable afterwards, ret, threw]
ParameterUndefIsGet(g, cur, args) ==
    IF Len(args) > 0 /\ args[1] # Undef
    THEN IF GuardThrows(g, args[1])
         THEN [value |-> cur, ret |-> Undef, threw |-> TRUE]
         ELSE [value |-> GuardValue(g, args[1]), ret |-> GuardValue(g, args[1]),
               threw |-> FALSE]
    ELSE [value |-> cur, ret |-> cur, threw |-> FALSE]

ParameterRaw(g, cur, args) ==
    IF Len(args) > 0
    THEN IF GuardThrows(g, args[1])
         THEN [value |-> cur, ret |-> Undef, threw |-> TRUE]
         ELSE [value |-> args[1], ret |-> GuardValue(g, args[1]), threw |-> FALSE]
    ELSE [value |-> cur, ret |-> cur, threw |-> FALSE]

ParameterSilent(g, cur, args) ==
    IF Len(args) > 0 /\ ~GuardThrows(g, args[1])
    THEN [value |-> GuardValue(g, args[1]), ret |-> GuardValue(g, args[1]), threw |-> FALSE]
    ELSE [value |-> cur, ret |-> cur, threw |-> FALSE]

ParameterEager(g, cur, args) ==
    IF Len(args) > 0
    THEN IF GuardThrows(g, args[1])
         THEN [value |-> args[1], ret |-> Undef, threw |-> TRUE]
         ELSE [value |-> GuardValue(g, args[1]), ret |-> GuardValue(g, args[1]),
               threw |-> FALSE]
    ELSE [value |-> cur, ret |-> cur, threw |-> FALSE]

Parameter(g, cur, args) ==
    IF Len(args) > 0
    THEN IF GuardThrows(g, args[1])
         THEN [value |-> cur, ret |-> Undef, threw |-> TRUE]
         ELSE [value |-> GuardValue(g, args[1]), ret |-> GuardValue(g, args[1]),
               threw |-> FALSE]
    ELSE [value |-> cur, ret |-> cur, threw |-> FALSE]

\* ---- call records -------------------------------------------------------
\* pc: "free"   not started
\*     "body"   inside thunk(), before it returns (the call is on `stack`)
\*     "await"  suspended at `await thunk()`: the thunk returned a value or
\*              a promise, the continuation has not run yet
\*     "queued" suspended at `await thunk()`, the awaited value has settled:
\*              the continuation is a job the event loop has still to run
\*     "done"   the promise returned by parameterize has settled
\* dups (history): the parameters named by more than one pair of the bindings
\* pairs (history): the number of pairs of the bindings
\* malformed (history): the call was made with arguments it had to refuse
\* orig: originalValues, entries <<parameter, value, tag>> in insertion order
\* common (history): the parameters of the bindings that a call running when
\* this call started had bound as well
\* outcome: what the awaited value settled as, once the continuation is queued
NoOutcome == [fulfilled |-> FALSE, v |-> Undef]

FreeCall == [pc |-> "free", dups |-> {}, pairs |-> 0, orig |-> <<>>,
             restored |-> FALSE, clean |-> FALSE, malformed |-> FALSE, common |-> {},
             outcome |-> NoOutcome]

Live(c) == calls[c].pc \in {"body", "await", "queued"}

Active == IF stack = <<>> THEN Main ELSE Head(stack)

NextId == Cardinality({c \in CallIds : calls[c].pc # "free"}) + 1

\* out: what the last operation returned (st "ok"/"resolve", v) or raised
\* (st "throw"/"reject", err).  For parameterize it also tells (history)
\*   phase: where the call ended: "validate", "apply", "body" (the thunk threw
\*          before returning) or "await" (the continuation ran)
\*   malformed: the arguments were such that the call had to refuse them
\*   bodyFailed: the thunk threw or its promise rejected
\*   orig, dups: the call's originalValues and repeated parameters
\*   held: the bound parameters nobody else had written since the apply loop
\*   inner: the calls started during this call's lifetime that have completed
\*          with their restore loop run to its end
\*   sets: the parameters the restore loop called, in the order of the calls
\*   common: the bound parameters that another call had bound as well while
\*           both calls were running
NoOut == [op |-> "init", st |-> "ok", v |-> Undef, err |-> "", phase |-> "",
          bodyFailed |-> FALSE, orig |-> <<>>, dups |-> {}, held |-> {},
          inner |-> {}, malformed |-> FALSE, sets |-> <<>>, common |-> {}]

\* the caller has taken the result of its last operation
Ready == out = NoOut

Init ==
    /\ value = [p \in Params |-> Undef]
    /\ tag = [p \in Params |-> Main]
    /\ guardOf = [p \in Params |-> "none"]
    /\ parameterSet = {}
    /\ made = {}
    /\ calls = [c \in CallIds |-> FreeCall]
    /\ stack = <<>>
    /\ out = NoOut
    /\ isParameterMethod = [f \in Functions |-> "absent"]

\* ---- makeParameter ------------------------------------------------------
MakeParameter(initialValue, guard) ==
    LET p == Cardinality(parameterSet) + 1 IN
    /\ Ready
    /\ p \in Params
    /\ IF ~isGuard(DefaultGuard(guard))
       THEN /\ out' = [NoOut EXCEPT !.op = "make", !.st = "throw", !.err = "TypeError"]
            /\ UNCHANGED <<value, tag, guardOf, parameterSet, made>>
       ELSE IF GuardThrows(guard.kind, initialValue)
       THEN /\ out' = [NoOut EXCEPT !.op = "make", !.st = "throw", !.err = "guard@make"]
            /\ UNCHANGED <<value, tag, guardOf, parameterSet, made>>
       ELSE /\ value' = [value EXCEPT ![p] = GuardValue(guard.kind, initialValue)]
            /\ tag' = [tag EXCEPT ![p] = Main]
            /\ guardOf' = [guardOf EXCEPT ![p] = guard.kind]
            /\ parameterSet' = parameterSet \cup {p}
            /\ made' = made \cup {p}
            /\ out' = [NoOut EXCEPT !.op = "make", !.v = p]
    /\ UNCHANGED <<calls, stack, isParameterMethod>>

Bound(orig) == {orig[i][1] : i \in 1..Len(orig)}

\* a settled call is forgotten once no call is running and no parameter holds
\* a value bound by a call: the call identities are then used afresh
Forget(cs, tg) ==
    IF /\ \A c \in CallIds : cs[c].pc \in {"free", "done"}
       /\ \A p \in Params : tg[p] = Main
    THEN [c \in CallIds |-> FreeCall]
    ELSE cs

\* ---- get and set: parameter() and parameter(v) --------------------------
Get(p) ==
    LET r == Parameter(guardOf[p], value[p], <<>>) IN
    /\ Ready
    /\ p \in parameterSet
    /\ value' = [value EXCEPT ![p] = r.value]
    /\ out' = [NoOut EXCEPT !.op = "get", !.v = r.ret]
    /\ UNCHANGED <<tag, guardOf, parameterSet, made, calls, stack, isParameterMethod>>

SetShared(p, v) ==
    LET r == Parameter(guardOf[p], value[p], <<v>>) IN
    /\ Ready
    /\ p \in parameterSet
    /\ value' = [q \in Params |->
                    IF q \in parameterSet /\ guardOf[q] = guardOf[p] THEN r.value ELSE value[q]]
    /\ tag' = IF r.threw THEN tag ELSE [tag EXCEPT ![p] = Main]
    /\ calls' = Forget(calls, tag')
    /\ out' = IF r.threw
              THEN [NoOut EXCEPT !.op = "set", !.st = "throw", !.err = "guard@set"]
              ELSE [NoOut EXCEPT !.op = "set", !.v = r.ret]
    /\ UNCHANGED <<guardOf, parameterSet, made, stack, isParameterMethod>>

Set(p, v) ==
    LET r == Parameter(guardOf[p], value[p], <<v>>) IN
    /\ Ready
    /\ p \in parameterSet
    /\ value' = [value EXCEPT ![p] = r.value]
    /\ tag' = IF r.threw THEN tag ELSE [tag EXCEPT ![p] = Main]
    /\ calls' = Forget(calls, tag')
    /\ out' = IF r.threw
              THEN [NoOut EXCEPT !.op = "set", !.st = "throw", !.err = "guard@set"]
              ELSE [NoOut EXCEPT !.op = "set", !.v = r.ret]
    /\ UNCHANGED <<guardOf, parameterSet, made, stack, isParameterMethod>>

\* ---- parameterize: the loops --------------------------------------------
\* Map.prototype.set: an existing key keeps its position
MapSet(m, k, e) ==
    IF \E i \in 1..Len(m) : m[i][1] = k
    THEN [i \in 1..Len(m) |-> IF m[i][1] = k THEN e ELSE m[i]]
    ELSE Append(m, e)

\* for (const [parameter] of parameters) { isParameter check; originalValues.set }
RECURSIVE SnapshotLoop(_, _, _)
SnapshotLoop(items, i, orig) ==
    IF i > Len(items) THEN [ok |-> TRUE, orig |-> orig, at |-> i]
    ELSE IF ~isParameter(items[i][1]) THEN [ok |-> FALSE, orig |-> orig, at |-> i]
    ELSE SnapshotLoop(items, i + 1,
             MapSet(orig, items[i][1],
                    <<items[i][1],
                      Parameter(guardOf[items[i][1]], value[items[i][1]], <<>>).ret,
                      tag[items[i][1]]>>))

\* for (const [parameter, value] of parameters) { parameter(value) }
RECURSIVE ApplyLoop(_, _, _, _, _)
ApplyLoop(items, i, val, tg, c) ==
    IF i > Len(items) THEN [value |-> val, tag |-> tg, threw |-> FALSE]
    ELSE LET p == items[i][1]
             r == Parameter(guardOf[p], val[p], <<items[i][2]>>)
         IN IF r.threw
            THEN [value |-> [val EXCEPT ![p] = r.value], tag |-> tg, threw |-> TRUE]
            ELSE ApplyLoop(items, i + 1, [val EXCEPT ![p] = r.value],
                           [tg EXCEPT ![p] = c], c)

\* for (const [parameter, value] of originalValues.entries()) { parameter(value) }
\* [value, tag: the cells afterwards; threw: a set raised and ended the loop;
\*  sets: the parameters the loop called with their recorded value, in order]
RestoreLoopAll(orig, i, val, tg) ==
    LET set(q) == Parameter(guardOf[q], val[q],
                            <<IF \E k \in 1..Len(orig) : orig[k][1] = q
                              THEN orig[CHOOSE k \in 1..Len(orig) : orig[k][1] = q][2]
                              ELSE Undef>>)
    IN [value |-> [q \in Params |-> IF q \in parameterSet THEN set(q).value ELSE val[q]],
        tag |-> [q \in Params |-> IF q \in parameterSet /\ ~set(q).threw THEN Main ELSE tg[q]],
        threw |-> \E q \in parameterSet : set(q).threw,
        sets |-> [k \in 1..Len(orig) |-> orig[k][1]]]

RestoreLoopFirst(orig, i, val, tg) ==
    IF orig = <<>> THEN [value |-> val, tag |-> tg, threw |-> FALSE, sets |-> <<>>]
    ELSE LET p == orig[1][1]
             r == Parameter(guardOf[p], val[p], <<orig[1][2]>>)
         IN [value |-> [val EXCEPT ![p] = r.value],
             tag |-> IF r.threw THEN tg ELSE [tg EXCEPT ![p] = orig[1][3]],
             threw |-> r.threw, sets |-> <<p>>]

RECURSIVE RestoreLoopDirect(_, _, _, _)
RestoreLoopDirect(orig, i, val, tg) ==
    IF i > Len(orig)
    THEN [value |-> val, tag |-> tg, threw |-> FALSE,
          sets |-> [k \in 1..Len(orig) |-> orig[k][1]]]
    ELSE RestoreLoopDirect(orig, i + 1, [val EXCEPT ![orig[i][1]] = orig[i][2]],
                           [tg EXCEPT ![orig[i][1]] = orig[i][3]])

RECURSIVE RestoreLoopUnlessWritten(_, _, _, _)
RestoreLoopUnlessWritten(orig, i, val, tg) ==
    IF i > Len(orig)
    THEN [value |-> val, tag |-> tg, threw |-> FALSE,
          sets |-> [k \in 1..Len(orig) |-> orig[k][1]]]
    ELSE LET p == orig[i][1]
             r == Parameter(guardOf[p], val[p], <<orig[i][2]>>)
         IN IF tg[p] = Main
            THEN RestoreLoopUnlessWritten(orig, i + 1, val, tg)
            ELSE IF r.threw
            THEN [value |-> [val EXCEPT ![p] = r.value], tag |-> tg, threw |-> TRUE,
                  sets |-> [k \in 1..i |-> orig[k][1]]]
            ELSE RestoreLoopUnlessWritten(orig, i + 1, [val EXCEPT ![p] = r.value],
                                          [tg EXCEPT ![p] = orig[i][3]])

RECURSIVE RestoreLoop(_, _, _, _)
RestoreLoop(orig, i, val, tg) ==
    IF i > Len(orig)
    THEN [value |-> val, tag |-> tg, threw |-> FALSE,
          sets |-> [k \in 1..Len(orig) |-> orig[k][1]]]
    ELSE LET p == orig[i][1]
             r == Parameter(guardOf[p], val[p], <<orig[i][2]>>)
         IN IF r.threw
            THEN [value |-> [val EXCEPT ![p] = r.value], tag |-> tg, threw |-> TRUE,
                  sets |-> [k \in 1..i |-> orig[k][1]]]
            ELSE RestoreLoop(orig, i + 1, [val EXCEPT ![p] = r.value],
                             [tg EXCEPT ![p] = orig[i][3]])

\* the record a call leaves behind once its promise has settled
\* restored (history): the restore loop ran to its end
\* clean (history): restored, and no call started during this call's lifetime
\* is still running
DoneCall(c, restoredOk) ==
    [FreeCall EXCEPT !.pc = "done", !.restored = restoredOk, !.common = calls[c].common,
                     !.clean = restoredOk /\ \A d \in CallIds : d > c => ~Live(d)]

\* the parameters of originalValues that a running call has bound
Common(orig) == {p \in Bound(orig) : \E d \in CallIds : Live(d) /\ p \in Bound(calls[d].orig)}

\* the parameters bound by call c that another call bound while c was running
Shared(c) ==
    calls[c].common
    \cup {p \in Bound(calls[c].orig) : \E d \in CallIds : d > c /\ p \in calls[d].common}

\* the bound parameters that still hold what call c bound
Held(c, orig, tg) == {p \in Bound(orig) : tg[p] = c}

\* the parameters that more than one pair of the bindings names
Dups(items) ==
    {items[i][1] : i \in {j \in 1..Len(items) :
                             \E k \in 1..Len(items) : k # j /\ items[k][1] = items[j][1]}}

\* the value of the last pair for p
LastFor(items, p) ==
    items[CHOOSE i \in 1..Len(items) :
              /\ items[i][1] = p
              /\ \A j \in 1..Len(items) : items[j][1] = p => j <= i][2]

\* ---- parameterize: inputs -----------------------------------------------
GoodThunk == [isFn |-> TRUE, arity |-> 0]

BadThunks == {[isFn |-> TRUE, arity |-> 1], [isFn |-> FALSE, arity |-> 0]}

\* pairs on created parameters, a pair on a non-parameter, a one-element array
Items == (parameterSet \X Vals) \cup {<<Fake, 0>>, <<Fake>>}

RECURSIVE SeqsUpTo(_, _)
SeqsUpTo(S, n) ==
    IF n = 0 THEN {<<>>}
    ELSE LET shorter == SeqsUpTo(S, n - 1)
         IN shorter \cup {Append(s, x) : s \in {t \in shorter : Len(t) = n - 1}, x \in S}

BindingArgs ==
    {[isArray |-> TRUE, items |-> s] : s \in SeqsUpTo(Items, MaxBindings)}
    \cup {[isArray |-> FALSE, items |-> <<>>]}

\* every bindings argument with a thunk; the short ones also with a non-thunk
CallArgs ==
    (BindingArgs \X {GoodThunk})
    \cup ({b \in BindingArgs : Len(b.items) <= 1} \X BadThunks)

\* the pairs bound by the calls that are running
RECURSIVE PairsHeld(_)
PairsHeld(c) ==
    IF c = 0 THEN 0
    ELSE PairsHeld(c - 1) + (IF Live(c) THEN calls[c].pairs ELSE 0)

\* history: what the caller passed is an argument parameterize must refuse
\* (bindings not an array of pairs, a thunk that is no zero-arity function, a
\* first element that makeParameter did not return)
Malformed(parameters, thunk) ==
    \/ ~parameters.isArray
    \/ \E i \in 1..Len(parameters.items) : Len(parameters.items[i]) # 2
    \/ ~(thunk.isFn /\ thunk.arity = 0)
    \/ \E i \in 1..Len(parameters.items) : parameters.items[i][1] \notin made

\* parameterize is an async function: whatever is thrown inside it, before or
\* after the first await, settles the promise it returns as a rejection
ThrownToCaller == "throw"

Rejection == "reject"

\* ---- parameterize: from the call to the entry into thunk() --------------
\* [st: "TypeError" (validation failed), "guard" (the apply loop threw and the
\*  finally block ran) or "body" (thunk() is entered); value, tag: the cells
\*  afterwards; orig: originalValues; threw: the restore loop threw; sets: the
\*  parameters the restore loop called]
EntryInterleaved(parameters, thunk, c) ==
    LET S == SnapshotLoop(parameters.items, 1, <<>>)
        A == ApplyLoop(SubSeq(parameters.items, 1, S.at - 1), 1, value, tag, c)
    IN [st |-> "TypeError", value |-> A.value, tag |-> A.tag, orig |-> <<>>,
        threw |-> FALSE, sets |-> <<>>]

Entry(parameters, thunk, c) ==
    LET S == SnapshotLoop(parameters.items, 1, <<>>)
        A == ApplyLoop(parameters.items, 1, value, tag, c)
        R == RestoreLoop(S.orig, 1, A.value, A.tag)
        rejected == [st |-> "TypeError", value |-> value, tag |-> tag, orig |-> <<>>,
                     threw |-> FALSE, sets |-> <<>>]
    IN IF ~(parameters.isArray /\ \A i \in 1..Len(parameters.items) : isPair(parameters.items[i]))
       THEN rejected
       ELSE IF ~isThunk(thunk) THEN rejected
       ELSE IF ~S.ok THEN rejected
       ELSE IF A.threw
       THEN [st |-> "guard", value |-> R.value, tag |-> R.tag, orig |-> S.orig,
             threw |-> R.threw, sets |-> R.sets]
       ELSE [st |-> "body", value |-> A.value, tag |-> A.tag, orig |-> S.orig,
             threw |-> FALSE, sets |-> <<>>]

Start(parameters, thunk) ==
    LET c == NextId
        E == Entry(parameters, thunk, c)
    IN
    /\ Ready
    /\ value' = E.value
    /\ tag' = E.tag
    /\ IF E.st = "TypeError"
       THEN /\ out' = [NoOut EXCEPT !.op = "parameterize", !.st = Rejection,
                          !.err = "TypeError", !.phase = "validate",
                          !.malformed = Malformed(parameters, thunk)]
            /\ UNCHANGED <<calls, stack>>
       ELSE /\ c \in CallIds
            /\ PairsHeld(MaxCalls) + Len(parameters.items) <= MaxPairs
            /\ IF E.st = "guard"
               THEN /\ calls' = Forget([calls EXCEPT ![c] = DoneCall(c, ~E.threw)], E.tag)
                    /\ stack' = stack
                    /\ out' = [NoOut EXCEPT !.op = "parameterize", !.st = Rejection,
                                  !.err = IF E.threw THEN "guard@restore" ELSE "guard@apply",
                                  !.phase = "apply", !.orig = E.orig, !.sets = E.sets,
                                  !.dups = Dups(parameters.items),
                                  !.malformed = Malformed(parameters, thunk)]
               ELSE /\ calls' = [calls EXCEPT ![c] =
                                   [FreeCall EXCEPT !.pc = "body", !.orig = E.orig,
                                       !.dups = Dups(parameters.items),
                                       !.pairs = Len(parameters.items),
                                       !.common = Common(E.orig),
                                       !.malformed = Malformed(parameters, thunk)]]
                    /\ stack' = <<c>> \o stack
                    /\ out' = NoOut
    /\ UNCHANGED <<guardOf, parameterSet, made, isParameterMethod>>

\* ---- the thunk (caller code) --------------------------------------------
Pop == stack' = Tail(stack)

BodyReturnRestoring ==
    LET c == Active
        R == RestoreLoop(calls[c].orig, 1, value, tag)
    IN
    /\ Ready
    /\ c # Main /\ calls[c].pc = "body"
    /\ value' = R.value
    /\ tag' = R.tag
    /\ calls' = [calls EXCEPT ![c].pc = "await"]
    /\ Pop
    /\ UNCHANGED <<guardOf, parameterSet, made, out, isParameterMethod>>

BodyReturnSettling ==
    LET c == Active
        R == RestoreLoop(calls[c].orig, 1, value, tag)
    IN
    /\ Ready
    /\ c # Main /\ calls[c].pc = "body"
    /\ value' = R.value
    /\ tag' = R.tag
    /\ calls' = [calls EXCEPT ![c] = DoneCall(c, ~R.threw)]
    /\ Pop
    /\ out' = [NoOut EXCEPT !.op = "parameterize", !.st = "resolve", !.v = 0,
                  !.phase = "body", !.orig = calls[c].orig, !.sets = R.sets]
    /\ UNCHANGED <<guardOf, parameterSet, made, isParameterMethod>>

\* the thunk returns: a plain value or a promise, which `await` takes alike
BodyReturn ==
    LET c == Active IN
    /\ Ready
    /\ c # Main /\ calls[c].pc = "body"
    /\ calls' = [calls EXCEPT ![c].pc = "await"]
    /\ Pop
    /\ UNCHANGED <<value, tag, guardOf, parameterSet, made, out, isParameterMethod>>

\* the finally block and the settling of the promise parameterize returned
Finish(c, phase, fulfilled, result) ==
    LET R == RestoreLoop(calls[c].orig, 1, value, tag) IN
    /\ value' = R.value
    /\ tag' = R.tag
    /\ calls' = Forget([calls EXCEPT ![c] = DoneCall(c, ~R.threw)], R.tag)
    /\ out' = [NoOut EXCEPT !.op = "parameterize",
                  !.st = IF fulfilled /\ ~R.threw THEN "resolve" ELSE Rejection,
                  !.v = IF fulfilled /\ ~R.threw THEN result ELSE Undef,
                  !.err = IF R.threw THEN "guard@restore"
                          ELSE IF fulfilled THEN "" ELSE "body",
                  !.phase = phase, !.bodyFailed = ~fulfilled,
                  !.orig = calls[c].orig, !.dups = calls[c].dups, !.sets = R.sets,
                  !.held = Held(c, calls[c].orig, tag), !.common = Shared(c),
                  !.malformed = calls[c].malformed,
                  !.inner = {d \in CallIds : d > c /\ calls[d].pc = "done" /\ calls[d].clean}]
    /\ UNCHANGED <<guardOf, parameterSet, made, isParameterMethod>>

\* the thunk throws before returning: the finally block runs at once
BodyThrow ==
    LET c == Active IN
    /\ Ready
    /\ c # Main /\ calls[c].pc = "body"
    /\ Finish(c, "body", FALSE, Undef)
    /\ Pop

\* ---- parameterize: the continuation after `await thunk()` ---------------
\* what the awaited thunk result turns out to be: the value returned (or the
\* value the returned promise resolved with), or a rejection
BodyOutcomes ==
    {[fulfilled |-> TRUE, v |-> r] : r \in Vals} \cup {[fulfilled |-> FALSE, v |-> Undef]}

Continue(c, outcome) ==
    /\ Ready
    /\ stack = <<>>
    /\ calls[c].pc = "await"
    /\ Finish(c, "await", outcome.fulfilled, outcome.v)
    /\ UNCHANGED stack

\* the two halves of Continue, apart: the awaited value settles (the thunk
\* returned a plain value, or the promise it returned resolves or rejects) and
\* the continuation becomes a job; the event loop runs the job when no thunk
\* frame is on the stack
Settle(c, outcome) ==
    /\ Ready
    /\ calls[c].pc = "await"
    /\ calls' = [calls EXCEPT ![c].pc = "queued", ![c].outcome = outcome]
    /\ UNCHANGED <<value, tag, guardOf, parameterSet, made, stack, out, isParameterMethod>>

RunContinuationWhenAlone(c) ==
    /\ Ready
    /\ stack = <<>>
    /\ calls[c].pc = "queued"
    /\ \A d \in CallIds \ {c} : ~Live(d)
    /\ Finish(c, "await", calls[c].outcome.fulfilled, calls[c].outcome.v)
    /\ UNCHANGED stack

RunContinuation(c) ==
    /\ Ready
    /\ stack = <<>>
    /\ calls[c].pc = "queued"
    /\ Finish(c, "await", calls[c].outcome.fulfilled, calls[c].outcome.v)
    /\ UNCHANGED stack

\* the caller takes the value returned or the exception thrown and goes on
Resume ==
    /\ ~Ready
    /\ out' = NoOut
    /\ UNCHANGED <<value, tag, guardOf, parameterSet, made, calls, stack, isParameterMethod>>

\* ---- reading the state ---------------------------------------------------
\* what p() returns now
Read(p) == Parameter(guardOf[p], value[p], <<>>).ret

\* the value originalValues holds for p
OrigValue(orig, p) == orig[CHOOSE i \in 1..Len(orig) : orig[i][1] = p][2]

\* the writer of the value originalValues holds for p
OrigTag(orig, p) == orig[CHOOSE i \in 1..Len(orig) : orig[i][1] = p][3]

\* the last operation was a parameterize call that ran its thunk and has settled
Completed == out.op = "parameterize" /\ out.phase \in {"body", "await"}

\* ---- claims --------------------------------------------------------------
\* C1: round trip.  After parameterize([[p, v]], body) has completed with a
\* body that does not touch p, p() equals the value p held immediately before
\* the call, for every guard p was constructed with.
C1_RoundTrip ==
    (Completed /\ Len(out.orig) = 1 /\ out.dups = {})
        => \A p \in out.held : Read(p) = OrigValue(out.orig, p)

\* C2: if the body fails (throws synchronously or its promise rejects), then
\* once parameterize has failed every parameter listed in bindings returns the
\* value it held before the call, and the call fails with the body's failure.
C2_BodyFailure ==
    (Completed /\ out.bodyFailed)
        => /\ out.st = "reject" /\ out.err = "body"
           /\ \A p \in Bound(out.orig) : Read(p) = OrigValue(out.orig, p)

\* C3: if a guard rejects its bound value during the apply step, parameterize
\* fails and every parameter in bindings, those rebound before the rejecting
\* pair included, returns its pre-call value afterwards.
C3_ApplyFailure ==
    (out.op = "parameterize" /\ out.phase = "apply")
        => /\ out.st = "reject"
           /\ \A p \in Bound(out.orig) : Read(p) = OrigValue(out.orig, p)

\* C4: given malformed input (bindings not an array of two-element arrays, a
\* body that is not a zero-arity function, or a pair at any position whose
\* first element is not a parameter), parameterize fails with a TypeError
\* without changing any parameter and without entering the body.
C4_ValidationBeforeMutation ==
    [][/\ (out'.op = "parameterize" /\ out'.malformed)
              => /\ out'.phase = "validate"
                 /\ out'.st = "reject" /\ out'.err = "TypeError"
                 /\ UNCHANGED <<value, tag, guardOf, parameterSet, calls, stack>>
       /\ \A c \in CallIds : calls'[c].pc = "body" => ~calls'[c].malformed]_vars

\* a call with a non-parameter or a non-thunk was refused while parameters
\* held values and another call was running
C4_Witness ==
    /\ out.op = "parameterize" /\ out.malformed /\ out.st = "reject"
    /\ \E p \in parameterSet : value[p] # Undef
    /\ \E c \in CallIds : Live(c)

\* C5 as stated, for the calls whose restore loop ran to its end: once a
\* parameterize call has completed, no parameter holds a value that the call
\* bound, whatever the schedule of the calls.
C5_InvisibleAfterCompletion ==
    \A c \in CallIds :
        (calls[c].pc = "done" /\ calls[c].restored) => \A p \in Params : tag[p] # c

\* C5 amended: once a parameterize call has completed with its restore loop
\* run to its end and with no call started during its lifetime still running,
\* no parameter holds a value that the call bound.
C5_InvisibleAfterCleanCompletion ==
    \A c \in CallIds :
        (calls[c].pc = "done" /\ calls[c].clean) => \A p \in Params : tag[p] # c

\* two calls overlapped on one parameter and the later one completed first
C5_Witness ==
    /\ Completed /\ out.st = "resolve"
    /\ calls[2].pc = "done" /\ calls[2].clean
    /\ Live(1)
    /\ \E p \in Bound(out.orig) : OrigTag(out.orig, p) = 1 /\ tag[p] = 1

\* C6: nesting.  When a call on n runs inside the body of another call on n
\* that awaits it, then after the inner call completes n reads the outer-bound
\* value, and after the outer call completes n reads the value it held before
\* the outer call.
C6_Nesting ==
    Completed =>
        \A n \in out.held :
            /\ (OrigTag(out.orig, n) \in CallIds /\ Live(OrigTag(out.orig, n)))
                   => Read(n) = OrigValue(out.orig, n)
            /\ out.inner # {} => Read(n) = OrigValue(out.orig, n)

\* C7: when the same parameter p appears more than once in bindings, the body
\* reads the value of the last pair for p, and after the call p() equals the
\* value it held before the call.
C7_Duplicates ==
    [][/\ \A a \in CallArgs :
             (Start(a[1], a[2]) /\ stack' # stack)
                 => \A p \in Dups(a[1].items) :
                        Read(p)' = GuardValue(guardOf[p], LastFor(a[1].items, p))
       /\ (Completed' /\ out'.st = "resolve")
              => \A p \in out'.dups \cap out'.held :
                     Read(p)' = OrigValue(out'.orig, p)]_vars

\* C8: in every reachable state the value a parameter holds is the result of
\* a guard application that did not fail; the cell never holds a candidate
\* that the guard rejected.
C8_HeldValuePassedGuard ==
    \A p \in parameterSet :
        \E v \in AllVals :
            ~GuardThrows(guardOf[p], v) /\ value[p] = GuardValue(guardOf[p], v)

\* a set has just failed on a parameter with a validating guard
C8_Witness ==
    /\ out.op = "set" /\ out.st = "throw"
    /\ \E p \in parameterSet : guardOf[p] = "isLetter" /\ GuardThrows(guardOf[p], 0)

\* C9: when a parameter is called with one argument v and its guard fails on
\* v, the failure propagates to the caller and the stored value is unchanged:
\* the next zero-argument call returns the same value as before.
C9_FailedSetKeepsValue ==
    [][\A p \in Params, v \in AllVals :
          (Set(p, v) /\ GuardThrows(guardOf[p], v))
              => /\ out'.op = "set" /\ out'.st = "throw" /\ out'.err = "guard@set"
                 /\ \A q \in parameterSet : Read(q)' = Read(q)]_vars

\* a set has just failed while the parameter held a value
C9_Witness ==
    /\ out.op = "set" /\ out.st = "throw" /\ out.err = "guard@set"
    /\ \E p \in parameterSet : guardOf[p] # "id" /\ value[p] # Undef

\* C10: isParameter(v) is true exactly when v is a function returned by
\* makeParameter; it is false for null and for a function built elsewhere.
C10_IsParameterIffMade ==
    \A t \in Targets : isParameter(t) <=> t \in made

C10_Witness ==
    /\ out.op = "make" /\ out.st = "ok" /\ isParameter(out.v)
    /\ ~isParameter(Fake) /\ ~isParameter(NullObj)

\* a guard argument that makeParameter must refuse: given, and not a function
\* of declared arity one
BadGuardArg(g) == g.given /\ ~(g.isFn /\ g.arity = 1)

\* C11: makeParameter produces no parameter when construction fails: when the
\* guard argument is given and is not a function of arity one, or when the
\* guard raises on initialValue, makeParameter throws and isParameter
\* recognises the same values as before; a guard argument of undefined is
\* the identity guard.
C11_FailedConstruction ==
    [][out'.op = "make" =>
          \A v \in AllVals, g \in GuardArgs :
              MakeParameter(v, g) =>
                  /\ (BadGuardArg(g) \/ GuardThrows(g.kind, v))
                         => /\ out'.st = "throw"
                            /\ \A t \in Targets : isParameter(t)' <=> isParameter(t)
                            /\ value' = value /\ guardOf' = guardOf
                  /\ ~g.given
                         => /\ out'.st = "ok"
                            /\ out'.v \in parameterSet' /\ ~isParameter(out'.v)
                            /\ value'[out'.v] = v]_vars

\* a construction has just failed on its guard while a parameter existed
C11_Witness ==
    /\ out.op = "make" /\ out.st = "throw" /\ out.err = "TypeError"
    /\ parameterSet # {} /\ parameterSet # Params

\* C12: a zero-argument call returns the stored value without running the
\* guard (it succeeds also when the guard would reject the stored value) and
\* without changing any stored value; a one-argument call with undefined is a
\* set of undefined: the guard runs on undefined.
C12_GetIsPureUndefinedIsSet ==
    [][/\ out'.op = "get" =>
              \A p \in Params :
                  Get(p) => /\ out'.st = "ok" /\ out'.v = value[p]
                            /\ value' = value
       /\ out'.op = "set" =>
              \A p \in Params :
                  Set(p, Undef) =>
                      IF GuardThrows(guardOf[p], Undef)
                      THEN out'.st = "throw" /\ value' = value
                      ELSE /\ out'.st = "ok"
                           /\ out'.v = GuardValue(guardOf[p], Undef)
                           /\ value'[p] = GuardValue(guardOf[p], Undef)]_vars

\* a zero-argument call has just returned a stored value that the guard of
\* its parameter would reject as a candidate
C12_Witness ==
    /\ out.op = "get" /\ out.st = "ok"
    /\ \E p \in parameterSet : value[p] = out.v /\ GuardThrows(guardOf[p], value[p])
    /\ \A p \in parameterSet : value[p] = out.v

\* C13: for every guard g and value v accepted by g, makeParameter(v, g)()
\* equals g(v); a successful one-argument call p(v) stores g(v) and returns
\* g(v), and a zero-argument call or a failed call changes no stored value,
\* so that p() stays g(v) until the next successful set.  With the identity
\* guard the stored and returned value is v itself.
C13_StoresGuardResult ==
    [][/\ out'.op = "make" =>
              \A v \in AllVals, g \in GuardArgs :
                  (MakeParameter(v, g) /\ ~BadGuardArg(g) /\ ~GuardThrows(g.kind, v))
                      => /\ out'.st = "ok"
                         /\ Parameter(guardOf'[out'.v], value'[out'.v], <<>>).ret
                                = GuardValue(g.kind, v)
                         /\ (~g.given \/ g.kind = "id") => value'[out'.v] = v
       /\ out'.op = "set" =>
              \A p \in Params, v \in AllVals :
                  (Set(p, v) /\ ~GuardThrows(guardOf[p], v))
                      => /\ out'.st = "ok"
                         /\ out'.v = GuardValue(guardOf[p], v)
                         /\ Parameter(guardOf'[p], value'[p], <<>>).ret
                                = GuardValue(guardOf[p], v)
                         /\ guardOf[p] = "id" => value'[p] = v
       /\ (out'.op = "get" \/ out'.st = "throw") => value' = value]_vars

\* a set has just succeeded on a parameter whose guard transforms: the value
\* stored and returned is not the candidate
C13_Witness ==
    /\ out.op = "set" /\ out.st = "ok" /\ out.v = 0
    /\ parameterSet # {}
    /\ \A p \in parameterSet : guardOf[p] = "dec" /\ value[p] = 0

\* C14: when apply and body both succeed, parameterize resolves to exactly
\* the body's result (the value the thunk returned or its promise resolved
\* with), and on entry into the body each parameter in bindings reads as its
\* guard applied to the value bound to it.
C14_ResolvesToBodyResult ==
    [][/\ Len(stack') > Len(stack) =>
              \A a \in CallArgs :
                  Start(a[1], a[2]) =>
                      \A p \in Bound(calls'[Head(stack')].orig) :
                          Parameter(guardOf[p], value'[p], <<>>).ret
                              = GuardValue(guardOf[p], LastFor(a[1].items, p))
       /\ (out'.op = "parameterize" /\ out'.phase = "await") =>
              \A c \in CallIds, o \in BodyOutcomes :
                  (Continue(c, o) /\ o.fulfilled)
                      => out'.st = "resolve" /\ out'.v = o.v]_vars

\* C17: parameterize never suppresses or replaces a failure from guard
\* application or from the body: when the apply step fails the caller
\* receives the guard's failure from the apply step, and when the body fails
\* the caller receives the body's failure.
C17_FailureNotReplaced ==
    /\ (out.op = "parameterize" /\ out.phase = "apply")
           => out.st = "reject" /\ out.err = "guard@apply"
    /\ (Completed /\ out.bodyFailed)
           => out.st = "reject" /\ out.err = "body"

\* C20: when the body throws synchronously, restoration is complete at the
\* moment the parameterize call returns to its caller: without awaiting the
\* returned promise the caller reads the pre-call value of every bound
\* parameter.
C20_SyncThrowRestoresAtOnce ==
    (out.op = "parameterize" /\ out.phase = "body")
        => \A p \in Bound(out.orig) : Read(p) = OrigValue(out.orig, p)

\* C15: parameterize writes no parameter that its bindings do not name: on
\* entry into the body, and when the call is refused, fails or completes,
\* every parameter absent from the bindings holds the value it held before
\* the step, written by the same writer.
C15_UnnamedUntouched ==
    [][/\ Len(stack') > Len(stack) =>
              \A a \in CallArgs :
                  Start(a[1], a[2]) =>
                      \A q \in Params \ {a[1].items[i][1] : i \in 1..Len(a[1].items)} :
                          value'[q] = value[q] /\ tag'[q] = tag[q]
       /\ out'.op = "parameterize" =>
              \A q \in Params \ Bound(out'.orig) :
                  value'[q] = value[q] /\ tag'[q] = tag[q]]_vars

\* a call has completed while a parameter that it did not name held a value
C15_Witness ==
    /\ Completed /\ out.st = "resolve" /\ Bound(out.orig) # {}
    /\ \E q \in parameterSet \ Bound(out.orig) : value[q] # Undef /\ guardOf[q] # "id"

\* C16: each parameter owns private storage: a one-argument call on one
\* parameter, successful or failed, never changes what a zero-argument call
\* on any other parameter returns, also when the two parameters have the same
\* guard.
C16_PrivateStorage ==
    [][out'.op = "set" =>
          \A p \in Params, v \in AllVals :
              Set(p, v) => \A q \in parameterSet \ {p} : Read(q)' = Read(q)]_vars

\* a set has just succeeded on one of two parameters that have the same guard,
\* and the two hold different values
C16_Witness ==
    /\ out.op = "set" /\ out.st = "ok"
    /\ parameterSet = Params
    /\ \A p, q \in Params : guardOf[p] = guardOf[q]
    /\ \E p, q \in Params : value[p] # value[q]

\* C18: restoration never happens before the body has settled: on entry into
\* the body each bound parameter reads as the rebound value, and while the
\* call is running (inside the thunk or suspended at the await) a bound
\* parameter that still holds what the call bound keeps it in every step,
\* unless the step is a write by someone else (a set, the start of another
\* call, the restore of another call).
C18_NoRestoreBeforeSettle ==
    [][/\ Len(stack') > Len(stack) =>
              \A a \in CallArgs :
                  Start(a[1], a[2]) =>
                      \A p \in Bound(calls'[Head(stack')].orig) :
                          /\ tag'[p] = Head(stack')
                          /\ Parameter(guardOf[p], value'[p], <<>>).ret
                                 = GuardValue(guardOf[p], LastFor(a[1].items, p))
       /\ \A c \in CallIds :
              (Live(c) /\ calls'[c].pc \in {"body", "await"}) =>
                  \A p \in Held(c, calls[c].orig, tag) :
                      \/ value'[p] = value[p] /\ tag'[p] = c
                      \/ out'.op \in {"set", "parameterize"}
                      \/ Len(stack') > Len(stack)]_vars

\* a zero-argument call has just been made while the call that bound the
\* parameter was suspended at its await, and returned the bound value
C18_Witness ==
    /\ out.op = "get"
    /\ \E c \in CallIds :
           /\ calls[c].pc = "await"
           /\ Bound(calls[c].orig) = parameterSet
           /\ \A p \in parameterSet :
                  /\ tag[p] = c /\ out.v = value[p]
                  /\ value[p] # OrigValue(calls[c].orig, p)

FirstOccurrences(items) ==
    LET F[i \in 0..Len(items)] ==
            IF i = 0 THEN <<>>
            ELSE IF \E k \in 1..Len(F[i - 1]) : F[i - 1][k] = items[i][1]
                 THEN F[i - 1]
                 ELSE Append(F[i - 1], items[i][1])
    IN F[Len(items)]

\* the parameters originalValues holds, in the order of its entries
Snapshotted(orig) == [k \in 1..Len(orig) |-> orig[k][1]]

\* C21: on every exit path after snapshotting (normal return, guard failure
\* during apply, body failure) the restore step performs a set on every
\* snapshotted parameter, exactly once each, in the order of the parameter's
\* first occurrence in the bindings; none is skipped, also when the guard of
\* an earlier parameter fails during restoration.
C21_RestoreSetsEverySnapshot ==
    [][/\ (out'.op = "parameterize" /\ out'.phase # "validate")
              => out'.sets = Snapshotted(out'.orig)
       /\ (Len(stack') > Len(stack) \/ (out'.op = "parameterize" /\ out'.phase = "apply"))
              => \A a \in CallArgs :
                     Start(a[1], a[2]) =>
                         /\ out'.phase = "apply"
                                => Snapshotted(out'.orig) = FirstOccurrences(a[1].items)
                         /\ Len(stack') > Len(stack)
                                => Snapshotted(calls'[Head(stack')].orig)
                                       = FirstOccurrences(a[1].items)]_vars

\* the position of the pair whose set raises in the apply loop of a call made
\* now with these bindings
FailingPair(items) ==
    CHOOSE k \in 1..Len(items) :
        /\ ApplyLoop(SubSeq(items, 1, k), 1, value, tag, NextId).threw
        /\ ~ApplyLoop(SubSeq(items, 1, k - 1), 1, value, tag, NextId).threw

\* C23: if a guard fails during the apply step the body is never executed:
\* the pairs after the failing one are not applied (the cells are restored
\* from the state in which only the pairs before it were applied), control
\* goes directly to restoration, and the call fails with the guard's failure.
C23_ApplyFailureSkipsBody ==
    [][(out'.op = "parameterize" \/ Len(stack') > Len(stack)) =>
          \A a \in CallArgs :
              (/\ Start(a[1], a[2])
               /\ ~Malformed(a[1], a[2])
               /\ ApplyLoop(a[1].items, 1, value, tag, NextId).threw)
                  => LET items == a[1].items
                         before == ApplyLoop(SubSeq(items, 1, FailingPair(items) - 1), 1,
                                             value, tag, NextId)
                         S == SnapshotLoop(items, 1, <<>>)
                     IN /\ stack' = stack
                        /\ \A c \in CallIds : calls'[c].pc \in {"body", "await"} => Live(c)
                        /\ out'.op = "parameterize" /\ out'.phase = "apply"
                        /\ out'.sets # <<>>
                        /\ value' = RestoreLoop(S.orig, 1, before.value, before.tag).value
                        /\ out'.st = "reject" /\ out'.err = "guard@apply"]_vars

\* the bound parameters of the last call that no other writer has written
\* between the call's apply loop and its restore loop
Undisturbed == IF out.phase = "apply" THEN Bound(out.orig) ELSE out.held

\* the bound parameters of the last call whose guard raises on the snapshot
RaisingOnSnapshot ==
    {p \in Bound(out.orig) : GuardThrows(guardOf[p], OrigValue(out.orig, p))}

\* the parameters that the restore loop of the last call set without a raise
SetBack ==
    {out.sets[k] : k \in {j \in 1..Len(out.sets) :
                             out.err = "guard@restore" => j < Len(out.sets)}}

C25_DeferredRestoration ==
    [][/\ BodyReturn =>
              /\ value' = value /\ tag' = tag
              /\ calls'[Head(stack)].pc = "await"
              /\ calls'[Head(stack)].orig = calls[Head(stack)].orig
              /\ out' = NoOut
       /\ \A c \in CallIds :
              /\ (calls[c].pc = "await" /\ calls'[c].pc # "await")
                     => /\ stack = <<>>
                        /\ out'.op = "parameterize" /\ out'.phase = "await"
                        /\ out'.orig = calls[c].orig
                        /\ out'.sets # <<>> \/ calls[c].orig = <<>>
              /\ (calls[c].pc = "await" /\ calls'[c].pc = "await")
                     => \A p \in Held(c, calls[c].orig, tag) :
                            \/ value'[p] = value[p] /\ tag'[p] = c
                            \/ out'.op \in {"set", "parameterize"}
                            \/ Len(stack') > Len(stack)
       /\ out'.op = "get" =>
              \A p \in Params :
                  (Get(p) /\ tag[p] \in CallIds /\ calls[tag[p]].pc = "await")
                      => /\ out'.v = value[p]
                         /\ value'[p] = value[p] /\ tag'[p] = tag[p]]_vars

\* the caller that did not await has just read a parameter: the body has
\* returned, no thunk is running, the call is suspended at its await and the
\* value read is the one the call bound, not the snapshot
C25_Witness ==
    /\ out.op = "get" /\ stack = <<>>
    /\ \E c \in CallIds, p \in parameterSet :
           /\ calls[c].pc = "await"
           /\ p \in Held(c, calls[c].orig, tag)
           /\ out.v = value[p]
           /\ value[p] # OrigValue(calls[c].orig, p)
           /\ \A q \in parameterSet \ {p} : value[q] # out.v

\* call c is running and the step completes it, leaving no call running
CompletesLast(c) ==
    /\ Live(c)
    /\ \A d \in CallIds : calls'[d].pc \notin {"body", "await"}

\* C26: for two parameterize calls on the same parameter whose lifetimes
\* overlap and whose bound parameters have the identity guard: when both
\* have completed the parameter holds the value snapshotted by the call that
\* restored last; if they completed in last-started-first-completed order
\* that is the original value, the one the parameter held, written outside
\* the two calls, before the first of them started.
C26_LastRestorerWins ==
    [][(out'.op = "parameterize" /\ out'.phase \in {"body", "await"}) =>
          \A c \in CallIds :
              (/\ CompletesLast(c)
               /\ \A q \in Bound(calls[c].orig) : guardOf[q] = "id")
                  => \A p \in Shared(c) :
                         /\ value'[p] = OrigValue(calls[c].orig, p)
                         /\ tag'[p] = OrigTag(calls[c].orig, p)
                         /\ (\A d \in CallIds \ {c} : calls[d].pc = "done" => d > c)
                                => tag'[p] = Main]_vars

\* two calls overlapped on a parameter with the identity guard, the one that
\* started first completed first, and after both have completed the parameter
\* holds what the second one snapshotted: the value the first one had bound
C26_Witness ==
    /\ Completed
    /\ calls[1].pc = "done" /\ calls[2].pc = "done"
    /\ \E p \in out.common :
           /\ guardOf[p] = "id"
           /\ OrigTag(out.orig, p) = 1 /\ tag[p] = 1
           /\ Read(p) = OrigValue(out.orig, p)

\* C27: every parameterize call that passes validation eventually restores
\* and settles provided its body settles: a call inside its thunk eventually
\* leaves it (the thunk returns or throws), and once the awaited value has
\* settled the restore step eventually runs and the returned promise resolves
\* or rejects; the promise stays pending only while the body's is pending.
C27_EventuallySettles ==
    /\ \A c \in CallIds :
           (calls[c].pc = "queued") ~> (calls[c].pc \in {"done", "free"})
    /\ \A c \in CallIds :
           (calls[c].pc = "body") ~> (calls[c].pc \in {"await", "queued", "done", "free"})

\* the continuation of one call has run and settled its promise while the
\* promise of another call's body is still pending
C27_Witness ==
    /\ out.op = "parameterize" /\ out.phase = "await" /\ out.sets # <<>>
    /\ \E c, d \in CallIds : calls[c].pc = "done" /\ calls[d].pc = "await"

\* ---- src/index.js: the symbol-tagged implementation ----------------------
\* parameter[IS_PARAMETER_METHOD] = (secret) => { if (secret === PARAMETER_SECRET)
\* return METHOD_SECRET }: what the method returns
ParameterMethod(secret) ==
    IF secret = "PARAMETER_SECRET" THEN "METHOD_SECRET" ELSE "undefined"

\* what a function may own under the key IS_PARAMETER_METHOD:
\*  "absent"       no own property
\*  "method"       the method makeParameter attaches
\*  "notCallable"  a value that is not a function
PropertyKinds == {"absent", "method", "notCallable"}

\* isParameter(value) of src/index.js: [ret: the boolean returned, threw]
isParameterBySymbol(v) ==
    IF v \notin Functions \/ isParameterMethod[v] = "absent"
    THEN [ret |-> FALSE, threw |-> FALSE]
    ELSE IF isParameterMethod[v] = "notCallable"
    THEN [ret |-> FALSE, threw |-> TRUE]
    ELSE [ret |-> ParameterMethod("PARAMETER_SECRET") = "METHOD_SECRET", threw |-> FALSE]

\* makeParameter of src/index.js: the closure is tagged with the method
MakeParameterJs(initialValue, guard) ==
    LET p == Cardinality(made) + 1 IN
    /\ Ready
    /\ p \in Params
    /\ IF ~isGuard(DefaultGuard(guard))
       THEN /\ out' = [NoOut EXCEPT !.op = "make", !.st = "throw", !.err = "TypeError"]
            /\ UNCHANGED <<value, guardOf, made, isParameterMethod>>
       ELSE IF GuardThrows(guard.kind, initialValue)
       THEN /\ out' = [NoOut EXCEPT !.op = "make", !.st = "throw", !.err = "guard@make"]
            /\ UNCHANGED <<value, guardOf, made, isParameterMethod>>
       ELSE /\ value' = [value EXCEPT ![p] = GuardValue(guard.kind, initialValue)]
            /\ guardOf' = [guardOf EXCEPT ![p] = guard.kind]
            /\ made' = made \cup {p}
            /\ isParameterMethod' = [isParameterMethod EXCEPT ![p] = "method"]
            /\ out' = [NoOut EXCEPT !.op = "make", !.v = p]
    /\ UNCHANGED <<tag, parameterSet, calls, stack>>

\* code outside the module copies the own properties of one function onto
\* another, the symbol-keyed ones included: the property makeParameter creates
\* by assignment is an ordinary enumerable, writable own property
CopyOwnProperties(from, to) ==
    /\ Ready
    /\ from \in made \cup {Fake} /\ to \in made \cup {Fake} /\ from # to
    /\ isParameterMethod[from] # "absent"
    /\ isParameterMethod' = [isParameterMethod EXCEPT ![to] = isParameterMethod[from]]
    /\ out' = [NoOut EXCEPT !.op = "copy", !.v = to]
    /\ UNCHANGED <<value, tag, guardOf, parameterSet, made, calls, stack>>

\* code outside the module reads the key off a function that owns the
\* property (Object.getOwnPropertySymbols) and stores a value that is not a
\* function under it
AssignProperty(to) ==
    /\ Ready
    /\ to \in made \cup {Fake}
    /\ \E f \in Functions : isParameterMethod[f] # "absent"
    /\ isParameterMethod' = [isParameterMethod EXCEPT ![to] = "notCallable"]
    /\ out' = [NoOut EXCEPT !.op = "assign", !.v = to]
    /\ UNCHANGED <<value, tag, guardOf, parameterSet, made, calls, stack>>

\* a caller applies isParameter to a value
IsParameterJs(t) ==
    LET r == isParameterBySymbol(t) IN
    /\ Ready
    /\ t \in made \cup {Fake, NullObj}
    /\ out' = [NoOut EXCEPT !.op = "isParameter", !.v = t,
                  !.st = IF r.threw THEN "throw" ELSE IF r.ret THEN "true" ELSE "false"]
    /\ UNCHANGED <<value, tag, guardOf, parameterSet, made, calls, stack, isParameterMethod>>

\* C22: in the symbol-tagged implementation isParameter(value) is true only
\* for functions returned by makeParameter: a function that did not come from
\* makeParameter is rejected even after code outside the module has copied
\* onto it the own properties (symbol-keyed ones included) of a genuine
\* parameter, and isParameter does not throw on such a value.
C22_SymbolTagUnforgeable ==
    out.op = "isParameter" =>
        /\ out.st # "throw"
        /\ out.st = "true" => out.v \in made

Next ==
    \/ Resume
    \/ \E v \in AllVals, g \in GuardArgs : MakeParameter(v, g)
    \/ \E p \in Params : Get(p)
    \/ \E p \in Params, v \in AllVals : Set(p, v)
    \/ \E a \in CallArgs : Start(a[1], a[2])
    \/ BodyReturn
    \/ BodyThrow
    \/ \E c \in CallIds, outcome \in BodyOutcomes : Continue(c, outcome)

Spec == Init /\ [][Next]_vars

\* src/index.js: makeParameter and isParameter, with code outside the module
NextJs ==
    \/ Resume
    \/ \E v \in AllVals, g \in GuardArgs : MakeParameterJs(v, g)
    \/ \E from \in Functions, to \in Functions : CopyOwnProperties(from, to)
    \/ \E to \in Functions : AssignProperty(to)
    \/ \E t \in Targets : IsParameterJs(t)

SpecJs == Init /\ [][NextJs]_vars

\* the specification for progress: the settling of the awaited value and the
\* run of the continuation are separate steps.  Fairness: the caller takes
\* each result (Resume); the thunk on top of the stack returns or throws,
\* whatever else it does before (the synchronous part of every body ends: a
\* JavaScript job runs to completion); a queued continuation is run (the
\* event loop drains its job queue whenever the stack is empty).  Nothing is
\* assumed about Settle: a promise returned by a thunk may stay pending.
\* The calls bind at most one parameter each and the outside flow makes no
\* plain set: neither changes which steps a call can take.
NextLive ==
    \/ Resume
    \/ \E v \in AllVals, g \in GuardArgs : MakeParameter(v, g)
    \/ \E a \in CallArgs : Len(a[1].items) <= 1 /\ Start(a[1], a[2])
    \/ BodyReturn
    \/ BodyThrow
    \/ \E c \in CallIds, outcome \in BodyOutcomes : Settle(c, outcome)
    \/ \E c \in CallIds : RunContinuation(c)

Fairness ==
    /\ WF_vars(Resume)
    /\ SF_vars(BodyReturn \/ BodyThrow)
    /\ \A c \in CallIds : SF_vars(RunContinuation(c))

SpecLive == Init /\ [][NextLive]_vars /\ Fairness
====
